---- MODULE Spec2Model ----
(***************************************************************************)
(* Model of the CEP temperature system: service A (gateway, handleCEP)     *)
(* and service B (orchestrator, handleTemperature, fetchCityFromCEP,       *)
(* fetchTemperature), with the OpenTelemetry spans each handler opens.     *)
(* A handler blocks on its outbound HTTP calls, so each handler is cut at  *)
(* its client.Do calls: one action runs the code up to the call, the next  *)
(* runs the code from the call's return to the following call or return.   *)
(* Strings that are inspected character by character (the postal code) are *)
(* sequences of one-character strings.  Temperatures are integers in       *)
(* tenths of a degree (Fahrenheit in hundredths).                          *)
(***************************************************************************)
EXTENDS Integers, Sequences, FiniteSets, TLC

(* ---------------------------- bounds ---------------------------------- *)
\* number of "0" characters between the first and last character of a
\* generated postal code: lengths 2 .. MaxMid+2, so 7, 8 and 9 are covered
MaxMid == 7
\* trace identifiers the random id generator may draw
MaxTraceId == 2
\* weather readings range over -MaxTemp..MaxTemp tenths (and 22.5)
MaxTemp == 2

(* ------------------------- program constants -------------------------- *)
StatusOK == 200
StatusBadRequest == 400
StatusNotFound == 404
StatusUnprocessableEntity == 422
StatusInternalServerError == 500

(* ----------------------------- inputs --------------------------------- *)
Digits == {"0", "1", "2", "3", "4", "5", "6", "7", "8", "9"}
HexDigits == Digits \cup {"a", "b", "c", "d", "e", "f"}
Alphabet == {"0", "9", "+", "-", "a", "%"}

Zeros(n) == [i \in 1..n |-> "0"]
Pad(h, n, t) == <<h>> \o Zeros(n) \o <<t>>

ScenarioCEPs ==
  { <<"0","1","0","0","1","0","0","0">>,
    <<"0","0","0","0","0","0","0","0">>,
    <<"1","2","3">> }

CEPs ==
  {<<>>} \cup { <<c>> : c \in Alphabet }
    \cup { Pad(h, n, t) : h \in Alphabet, n \in 0..MaxMid, t \in Alphabet }
    \cup ScenarioCEPs

\* request bodies a client can post: undecodable JSON, or an object whose
\* "cep" member is a string
Bodies == { [ok |-> FALSE, cep |-> <<>>] } \cup { [ok |-> TRUE, cep |-> c] : c \in CEPs }

TraceIds == 1..MaxTraceId

Cities == {"", "Sao Paulo", "Rio"}
Readings == (-MaxTemp..MaxTemp) \cup {225}

\* answers of the geocoding provider to client.Do / io.ReadAll / json.Unmarshal
GeoReplies ==
  { [transportOk |-> FALSE, status |-> 0, readOk |-> FALSE, decodeOk |-> FALSE, localidade |-> ""] }
  \cup { [transportOk |-> TRUE, status |-> s, readOk |-> FALSE, decodeOk |-> FALSE, localidade |-> ""]
           : s \in {StatusBadRequest, StatusNotFound} }
  \cup { [transportOk |-> TRUE, status |-> s, readOk |-> FALSE, decodeOk |-> FALSE, localidade |-> ""]
           : s \in {StatusOK, StatusInternalServerError} }
  \cup { [transportOk |-> TRUE, status |-> s, readOk |-> TRUE, decodeOk |-> FALSE, localidade |-> ""]
           : s \in {StatusOK, StatusInternalServerError} }
  \cup { [transportOk |-> TRUE, status |-> s, readOk |-> TRUE, decodeOk |-> TRUE, localidade |-> c]
           : s \in {StatusOK, StatusInternalServerError}, c \in Cities }

\* answers of the weather provider to client.Do / json.Decode
WeatherReplies ==
  { [transportOk |-> FALSE, status |-> 0, decodeOk |-> FALSE, temp_c |-> 0] }
  \cup { [transportOk |-> TRUE, status |-> s, decodeOk |-> FALSE, temp_c |-> 0]
           : s \in {401, StatusInternalServerError} }
  \cup { [transportOk |-> TRUE, status |-> StatusOK, decodeOk |-> FALSE, temp_c |-> 0] }
  \cup { [transportOk |-> TRUE, status |-> StatusOK, decodeOk |-> TRUE, temp_c |-> t]
           : t \in Readings }

(* ------------------------- responses ---------------------------------- *)
NoResult == [city |-> "", temp_C |-> 0, temp_F |-> 0, temp_K |-> 0]

\* http.Error(w, msg, code): plain-text body msg followed by a newline
HttpError(msg, code) ==
  [status |-> code, ctype |-> "text/plain; charset=utf-8",
   body |-> [kind |-> "text", text |-> msg, nl |-> TRUE, result |-> NoResult]]

\* json.NewEncoder(w).Encode(v) on a fresh ResponseWriter: implicit status 200
JsonOK(result) ==
  [status |-> StatusOK, ctype |-> "application/json",
   body |-> [kind |-> "json", text |-> "", nl |-> TRUE, result |-> result]]

BodyContains(b, msg) == b.kind = "text" /\ b.text = msg

(* --------------------------- JSON ------------------------------------- *)
\* json.NewDecoder(r.Body).Decode(&req) into CEPRequest
Decode(body) ==
  IF body.ok THEN [err |-> FALSE, req |-> [CEP |-> body.cep]]
             ELSE [err |-> TRUE,  req |-> [CEP |-> <<>>]]

\* json.Marshal(req) of a CEPRequest: an object with the "cep" member
Marshal(req) == [err |-> FALSE, body |-> [ok |-> TRUE, cep |-> req.CEP]]

(* ------------------------ Postal Validator ---------------------------- *)
IsSign(c) == c \in {"+", "-"}

\* strconv.Atoi, fast path (0 < len(s) < 19): an optional leading sign is
\* stripped, what remains must be non-empty and all decimal digits.
AtoiOk(s) ==
  LET t == IF Len(s) > 0 /\ IsSign(s[1]) THEN Tail(s) ELSE s
  IN  /\ Len(t) >= 1
      /\ \A i \in 1..Len(t) : t[i] \in Digits

isValidCEP(cep) ==
  IF Len(cep) # 8 THEN FALSE ELSE AtoiOk(cep)

\* what the specification calls a PostalCode
EightDigits(cep) == Len(cep) = 8 /\ \A i \in 1..Len(cep) : cep[i] \in Digits

(* ----------------------------- spans ---------------------------------- *)
NoSpan == 0

\* tracer.Start(ctx, name): a child of the span held by ctx (same trace id)
\* or, when ctx holds no span, a root span with a freshly drawn trace id
StartSpan(ss, ctx, name, svc, tid) ==
  Append(ss, [name |-> name, svc |-> svc,
              trace |-> IF ctx = NoSpan THEN tid ELSE ss[ctx].trace,
              parent |-> ctx,
              parentOpen |-> IF ctx = NoSpan THEN TRUE ELSE ss[ctx].ended = 0,
              ended |-> 0, status |-> "", recorded |-> FALSE])

\* span.End()
EndSpan(ss, i) == [ss EXCEPT ![i].ended = @ + 1]
\* span.SetStatus(codes.Error, desc)
SetStatus(ss, i, desc) == [ss EXCEPT ![i].status = desc]
\* span.RecordError(err)
RecordError(ss, i) == [ss EXCEPT ![i].recorded = TRUE]

(* ----------------------------- state ---------------------------------- *)
VARIABLES
  gwPc,          \* handleCEP: "idle", "calling" (blocked in client.Do), "done"
  gwReq,         \* handleCEP's decoded req
  gwValid,       \* verdict of isValidCEP: "none", "valid", "invalid"
  gwCall,        \* outbound call: "none", "pending", "failed", "unreadable", "relayed"
  gwOut,         \* responses handleCEP wrote to its caller
  wire,          \* requests in flight to service B
  obPc,          \* handleTemperature: "idle", "geocoding", "weather", "done"
  obOrigin,      \* who sent the request service B handles: "gateway", "client", "none"
  obReq,         \* handleTemperature's decoded req
  obCity,        \* city returned by fetchCityFromCEP
  obOut,         \* responses handleTemperature wrote
  spans,         \* every span started, in start order
  geoCalls,      \* arguments of the calls to fetchCityFromCEP
  geoSent,       \* postal codes sent to the geocoding provider
  geoReplies,    \* the provider's answers
  weatherCalls,  \* arguments of the calls to fetchTemperature
  weatherReplies,\* the weather provider's answers
  orchCalls      \* number of requests service A sent to service B

vars == <<gwPc, gwReq, gwValid, gwCall, gwOut, wire, obPc, obOrigin, obReq, obCity,
          obOut, spans, geoCalls, geoSent, geoReplies, weatherCalls, weatherReplies,
          orchCalls>>

gwVars == <<gwPc, gwReq, gwValid, gwCall, gwOut, orchCalls>>
obVars == <<obPc, obOrigin, obReq, obCity, obOut>>
depVars == <<geoCalls, geoSent, geoReplies, weatherCalls, weatherReplies>>

NoReq == [CEP |-> <<>>]

Init ==
  /\ gwPc = "idle" /\ gwReq = NoReq /\ gwValid = "none" /\ gwCall = "none"
  /\ gwOut = <<>> /\ wire = <<>>
  /\ obPc = "idle" /\ obOrigin = "none" /\ obReq = NoReq /\ obCity = "" /\ obOut = <<>>
  /\ spans = <<>>
  /\ geoCalls = <<>> /\ geoSent = <<>> /\ geoReplies = <<>>
  /\ weatherCalls = <<>> /\ weatherReplies = <<>>
  /\ orchCalls = 0

(* ------------------------ service A: handleCEP ------------------------ *)
\* the context the call-service-b span is started from.  "ctx, validateSpan :=
\* tracer.Start(ctx, ...)" redeclares only validateSpan: ctx is assigned, so
\* from then on ctx holds the validate-cep span.
CallSpanCtx(rootCtx, validateCtx) == validateCtx

\* otel.GetTextMapPropagator().Inject(ctx, headers): the traceparent header
\* names the trace and the span held by ctx
Inject(ss, ctx) == [present |-> TRUE, trace |-> ss[ctx].trace, span |-> ctx]
NoHeader == [present |-> FALSE, trace |-> 0, span |-> NoSpan]

\* mutant: the undecodable body answered with a server error
GatewayBadBody_ServerError == HttpError("invalid request body", StatusInternalServerError)

\* response to a body json cannot decode (lines 87-92)
GatewayBadBody == HttpError("invalid request body", StatusBadRequest)
\* mutant: the rejected postal code answered with 400
GatewayInvalid_BadRequest == HttpError("invalid zipcode", StatusBadRequest)

\* response to a postal code the validator rejects (lines 96-102)
GatewayInvalid == HttpError("invalid zipcode", StatusUnprocessableEntity)

\* handleCEP from its entry to the blocking client.Do (lines 76-131)
HandleCEP_Receive(body, tid) ==
  /\ gwPc = "idle" /\ obPc = "idle" /\ wire = <<>>
  /\ LET d    == Decode(body)
         s1   == StartSpan(spans, NoSpan, "handleCEP", "service-a", tid)
         root == Len(s1)
         s2   == StartSpan(s1, root, "validate-cep", "service-a", tid)
         val  == Len(s2)
         s3   == StartSpan(EndSpan(s2, val), CallSpanCtx(root, val),
                           "call-service-b", "service-a", tid)
         call == Len(s3)
         m    == Marshal(d.req)
     IN
     IF d.err THEN
        /\ spans' = EndSpan(SetStatus(RecordError(s1, root), root, "Invalid request body"), root)
        /\ gwOut' = Append(gwOut, GatewayBadBody)
        /\ gwPc' = "done"
        /\ UNCHANGED <<gwReq, gwValid, gwCall, wire, orchCalls>>
     ELSE IF ~isValidCEP(d.req.CEP) THEN
        /\ spans' = EndSpan(EndSpan(SetStatus(RecordError(s2, val), val, "Invalid zipcode"), val), root)
        /\ gwOut' = Append(gwOut, GatewayInvalid)
        /\ gwReq' = d.req
        /\ gwValid' = "invalid"
        /\ gwPc' = "done"
        /\ UNCHANGED <<gwCall, wire, orchCalls>>
     ELSE IF m.err THEN
        /\ spans' = EndSpan(SetStatus(RecordError(EndSpan(s2, val), root), root,
                                      "Failed to marshal request"), root)
        /\ gwOut' = Append(gwOut, HttpError("internal server error", StatusInternalServerError))
        /\ gwReq' = d.req
        /\ gwValid' = "valid"
        /\ gwPc' = "done"
        /\ UNCHANGED <<gwCall, wire, orchCalls>>
     ELSE
        /\ spans' = s3
        /\ gwReq' = d.req
        /\ gwValid' = "valid"
        /\ gwCall' = "pending"
        /\ gwPc' = "calling"
        /\ wire' = Append(wire, [body |-> m.body, header |-> Inject(s3, call), origin |-> "gateway"])
        /\ orchCalls' = orchCalls + 1
        /\ UNCHANGED gwOut
  /\ UNCHANGED <<obVars, depVars>>

\* index of the (only) span with the given name, NoSpan when none
SpanNamed(ss, name) ==
  IF \E i \in 1..Len(ss) : ss[i].name = name
  THEN CHOOSE i \in 1..Len(ss) : ss[i].name = name
  ELSE NoSpan

\* mutant: w.WriteHeader(resp.StatusCode) left out, the status defaults to 200
Relay_NoWriteHeader(resp) == [status |-> StatusOK, ctype |-> "application/json", body |-> resp.body]

\* what handleCEP relays of service B's response (lines 150-152)
Relay(resp) == [status |-> resp.status, ctype |-> "application/json", body |-> resp.body]

\* mutant: the error of io.ReadAll is ignored and what was read is relayed
HandleCEP_Response_IgnoreReadError(readOk) ==
  /\ gwPc = "calling" /\ obPc = "done" /\ obOrigin = "gateway" /\ Len(obOut) > 0
  /\ LET call == SpanNamed(spans, "call-service-b")
         root == SpanNamed(spans, "handleCEP")
     IN  /\ spans' = EndSpan(EndSpan(spans, call), root)
         /\ gwOut' = Append(gwOut, Relay(obOut[1]))
         /\ gwCall' = IF readOk THEN "relayed" ELSE "unreadable"
  /\ gwPc' = "done"
  /\ UNCHANGED <<gwReq, gwValid, orchCalls, wire, obVars, depVars>>

\* handleCEP after client.Do returned a response (lines 138-155)
HandleCEP_Response(readOk) ==
  /\ gwPc = "calling" /\ obPc = "done" /\ obOrigin = "gateway" /\ Len(obOut) > 0
  /\ LET call == SpanNamed(spans, "call-service-b")
         root == SpanNamed(spans, "handleCEP")
     IN
     IF ~readOk THEN
        /\ spans' = EndSpan(EndSpan(SetStatus(RecordError(spans, call), call,
                                              "Failed to read response"), call), root)
        /\ gwOut' = Append(gwOut, HttpError("internal server error", StatusInternalServerError))
        /\ gwCall' = "unreadable"
     ELSE
        /\ spans' = EndSpan(EndSpan(spans, call), root)
        /\ gwOut' = Append(gwOut, Relay(obOut[1]))
        /\ gwCall' = "relayed"
  /\ gwPc' = "done"
  /\ UNCHANGED <<gwReq, gwValid, orchCalls, wire, obVars, depVars>>

\* mutant: a failed call to service B is retried once more
HandleCEP_CallFails_Retry ==
  /\ gwPc = "calling"
  /\ wire' = Append(wire, [body |-> Marshal(gwReq).body,
                           header |-> Inject(spans, SpanNamed(spans, "call-service-b")),
                           origin |-> "gateway"])
  /\ orchCalls' = orchCalls + 1
  /\ gwCall' = "failed"
  /\ gwPc' = "done"
  /\ LET call == SpanNamed(spans, "call-service-b")
         root == SpanNamed(spans, "handleCEP")
     IN spans' = EndSpan(EndSpan(SetStatus(RecordError(spans, call), call,
                                           "Failed to call service"), call), root)
  /\ gwOut' = Append(gwOut, HttpError("failed to call service b", StatusInternalServerError))
  /\ UNCHANGED <<gwReq, gwValid, obVars, depVars>>

\* mutant: the call-service-b span is not ended on the failure path
HandleCEP_CallFails_NoCallSpanEnd ==
  /\ gwPc = "calling"
  /\ LET call == SpanNamed(spans, "call-service-b")
         root == SpanNamed(spans, "handleCEP")
     IN spans' = EndSpan(SetStatus(RecordError(spans, call), call, "Failed to call service"), root)
  /\ gwOut' = Append(gwOut, HttpError("failed to call service b", StatusInternalServerError))
  /\ gwCall' = "failed"
  /\ gwPc' = "done"
  /\ wire' = <<>>
  /\ UNCHANGED <<gwReq, gwValid, orchCalls, obVars, depVars>>

\* handleCEP after client.Do returned an error (lines 132-137): the request
\* was lost, or service B's answer was
HandleCEP_CallFails ==
  /\ gwPc = "calling"
  /\ LET call == SpanNamed(spans, "call-service-b")
         root == SpanNamed(spans, "handleCEP")
     IN spans' = EndSpan(EndSpan(SetStatus(RecordError(spans, call), call,
                                           "Failed to call service"), call), root)
  /\ gwOut' = Append(gwOut, HttpError("failed to call service b", StatusInternalServerError))
  /\ gwCall' = "failed"
  /\ gwPc' = "done"
  /\ wire' = <<>>
  /\ UNCHANGED <<gwReq, gwValid, orchCalls, obVars, depVars>>

(* --------------------- service B: handleTemperature ------------------- *)
\* the context handleTemperature starts its span from: r.Context() (line 213).
\* The handler never calls the propagator's Extract, so whatever traceparent
\* header the request carries, the context holds no span.
RequestContext(header) == NoSpan

\* http.NewRequestWithContext in fetchCityFromCEP (lines 102-108): the URL
\* "https://viacep.com.br/ws/<cep>/json/" fails to parse when a "%" is not
\* followed by two hexadecimal digits
NewRequestFails(cep) ==
  \E i \in 1..Len(cep) :
     /\ cep[i] = "%"
     /\ ~(i + 2 <= Len(cep) /\ cep[i+1] \in HexDigits /\ cep[i+2] \in HexDigits)

\* mutant: fetchCityFromCEP without the empty-city check
fetchCityFromCEP_NoEmptyCheck(reply) ==
  IF ~reply.transportOk THEN
     [city |-> "", err |-> "transport error", status |-> "API request failed", recorded |-> TRUE]
  ELSE IF reply.status = StatusBadRequest THEN
     [city |-> "", err |-> "invalid zipcode", status |-> "invalid zipcode", recorded |-> FALSE]
  ELSE IF reply.status = StatusNotFound THEN
     [city |-> "", err |-> "can not find zipcode", status |-> "can not find zipcode", recorded |-> FALSE]
  ELSE IF ~reply.readOk THEN
     [city |-> "", err |-> "read error", status |-> "Failed to read response", recorded |-> TRUE]
  ELSE IF ~reply.decodeOk THEN
     [city |-> "", err |-> "decode error", status |-> "Failed to decode response", recorded |-> TRUE]
  ELSE
     [city |-> reply.localidade, err |-> "", status |-> "", recorded |-> FALSE]

\* fetchCityFromCEP from client.Do's return to its own return (lines 111-151):
\* the city, err.Error() ("" for nil), the span status and whether
\* RecordError was called
fetchCityFromCEP(reply) ==
  IF ~reply.transportOk THEN
     [city |-> "", err |-> "transport error", status |-> "API request failed", recorded |-> TRUE]
  ELSE IF reply.status = StatusBadRequest THEN
     [city |-> "", err |-> "invalid zipcode", status |-> "invalid zipcode", recorded |-> FALSE]
  ELSE IF reply.status = StatusNotFound THEN
     [city |-> "", err |-> "can not find zipcode", status |-> "can not find zipcode", recorded |-> FALSE]
  ELSE IF ~reply.readOk THEN
     [city |-> "", err |-> "read error", status |-> "Failed to read response", recorded |-> TRUE]
  ELSE IF ~reply.decodeOk THEN
     [city |-> "", err |-> "decode error", status |-> "Failed to decode response", recorded |-> TRUE]
  ELSE IF reply.localidade = "" THEN
     [city |-> "", err |-> "city not found", status |-> "city not found", recorded |-> FALSE]
  ELSE
     [city |-> reply.localidade, err |-> "", status |-> "", recorded |-> FALSE]

\* mutant: the switch without its "city not found" case
GeoErrorResponse_NoCityCase(err) ==
  CASE err = "invalid zipcode" ->
         [resp |-> HttpError("invalid zipcode", StatusUnprocessableEntity), status |-> "Invalid zipcode"]
    [] OTHER ->
         [resp |-> HttpError("failed to fetch city", StatusInternalServerError), status |-> "Failed to fetch city"]

\* mutant: the switch without its "invalid zipcode" case
GeoErrorResponse_NoInvalidCase(err) ==
  CASE err = "city not found" ->
         [resp |-> HttpError("can not find zipcode", StatusNotFound), status |-> "Zipcode not found"]
    [] OTHER ->
         [resp |-> HttpError("failed to fetch city", StatusInternalServerError), status |-> "Failed to fetch city"]

\* the switch on err.Error() in handleTemperature (lines 234-244): the
\* response and the status set on the handler's span
GeoErrorResponse(err) ==
  CASE err = "invalid zipcode" ->
         [resp |-> HttpError("invalid zipcode", StatusUnprocessableEntity), status |-> "Invalid zipcode"]
    [] err = "city not found" ->
         [resp |-> HttpError("can not find zipcode", StatusNotFound), status |-> "Zipcode not found"]
    [] OTHER ->
         [resp |-> HttpError("failed to fetch city", StatusInternalServerError), status |-> "Failed to fetch city"]

\* mutant: fetchTemperature without the zero-reading check
fetchTemperature_NoZeroCheck(reply) ==
  IF ~reply.transportOk THEN
     [tempC |-> 0, err |-> "API request failed", status |-> "API request failed", recorded |-> TRUE]
  ELSE IF reply.status # StatusOK THEN
     [tempC |-> 0, err |-> "API error", status |-> "API returned error", recorded |-> FALSE]
  ELSE IF ~reply.decodeOk THEN
     [tempC |-> 0, err |-> "failed to decode response", status |-> "Failed to decode response", recorded |-> TRUE]
  ELSE
     [tempC |-> reply.temp_c, err |-> "", status |-> "", recorded |-> FALSE]

\* fetchTemperature from client.Do's return to its own return (lines 176-209)
fetchTemperature(reply) ==
  IF ~reply.transportOk THEN
     [tempC |-> 0, err |-> "API request failed", status |-> "API request failed", recorded |-> TRUE]
  ELSE IF reply.status # StatusOK THEN
     [tempC |-> 0, err |-> "API error", status |-> "API returned error", recorded |-> FALSE]
  ELSE IF ~reply.decodeOk THEN
     [tempC |-> 0, err |-> "failed to decode response", status |-> "Failed to decode response", recorded |-> TRUE]
  ELSE IF reply.temp_c = 0 THEN
     [tempC |-> 0, err |-> "invalid temperature data", status |-> "Invalid temperature data", recorded |-> FALSE]
  ELSE
     [tempC |-> reply.temp_c, err |-> "", status |-> "", recorded |-> FALSE]

\* the response to any fetchTemperature error (lines 249-254)
WeatherErrorResponse == HttpError("failed to fetch temperature", StatusInternalServerError)

\* mutant: the Fahrenheit formula with the offset added before scaling
Convert_OffsetFirst(city, tempC) ==
  [city |-> city, temp_C |-> tempC, temp_F |-> 18 * (tempC + 320), temp_K |-> tempC + 2730]

\* lines 256-264, tempC in tenths: temp_F in hundredths, temp_K in tenths
Convert(city, tempC) ==
  [city |-> city, temp_C |-> tempC, temp_F |-> 18 * tempC + 3200, temp_K |-> tempC + 2730]

\* a span's outcome as its function reports it: status and RecordError
Outcome(ss, i, r) ==
  LET s1 == IF r.recorded THEN RecordError(ss, i) ELSE ss
  IN  IF r.status = "" THEN s1 ELSE SetStatus(s1, i, r.status)

\* handleTemperature from its entry to fetchCityFromCEP's client.Do
\* (lines 211-231 and 92-111)
HandleTemperatureStart(msg, tid) ==
  /\ obPc = "idle"
  /\ LET d    == Decode(msg.body)
         s1   == StartSpan(spans, RequestContext(msg.header), "handleTemperature", "service-b", tid)
         root == Len(s1)
         s2   == StartSpan(s1, root, "fetch-city-from-cep", "service-b", tid)
         fc   == Len(s2)
         e    == GeoErrorResponse("url parse error")
     IN
     IF d.err THEN
        /\ spans' = EndSpan(SetStatus(RecordError(s1, root), root, "Invalid request body"), root)
        /\ obOut' = Append(obOut, HttpError("invalid request body", StatusBadRequest))
        /\ obPc' = "done"
        /\ UNCHANGED <<obReq, geoCalls, geoSent>>
     ELSE IF NewRequestFails(d.req.CEP) THEN
        /\ spans' = EndSpan(SetStatus(RecordError(
                       EndSpan(SetStatus(RecordError(s2, fc), fc, "Failed to create request"), fc),
                       root), root, e.status), root)
        /\ obOut' = Append(obOut, e.resp)
        /\ obReq' = d.req
        /\ geoCalls' = Append(geoCalls, d.req.CEP)
        /\ obPc' = "done"
        /\ UNCHANGED geoSent
     ELSE
        /\ spans' = s2
        /\ obReq' = d.req
        /\ geoCalls' = Append(geoCalls, d.req.CEP)
        /\ geoSent' = Append(geoSent, d.req.CEP)
        /\ obPc' = "geocoding"
        /\ UNCHANGED obOut
  /\ obOrigin' = msg.origin
  /\ UNCHANGED <<gwVars, obCity, geoReplies, weatherCalls, weatherReplies>>

\* service B receives the request service A sent
HandleTemperature_FromGateway(tid) ==
  /\ wire # <<>>
  /\ HandleTemperatureStart(Head(wire), tid)
  /\ wire' = Tail(wire)

\* service B receives a request a client posted to /temperature itself
HandleTemperature_Direct(body, tid) ==
  /\ gwPc = "idle" /\ wire = <<>>
  /\ HandleTemperatureStart([body |-> body, header |-> NoHeader, origin |-> "client"], tid)
  /\ wire' = wire

\* fetchCityFromCEP's client.Do returns; handleTemperature continues to its
\* error response or into fetchTemperature's client.Do
\* (lines 111-152, 232-248, 154-176)
GeocodingReturns(reply, tid) ==
  /\ obPc = "geocoding"
  /\ LET fc   == SpanNamed(spans, "fetch-city-from-cep")
         root == SpanNamed(spans, "handleTemperature")
         r    == fetchCityFromCEP(reply)
         s1   == EndSpan(Outcome(spans, fc, r), fc)
         e    == GeoErrorResponse(r.err)
     IN
     /\ geoReplies' = Append(geoReplies, reply)
     /\ IF r.err # "" THEN
           /\ spans' = EndSpan(SetStatus(RecordError(s1, root), root, e.status), root)
           /\ obOut' = Append(obOut, e.resp)
           /\ obPc' = "done"
           /\ UNCHANGED <<obCity, weatherCalls>>
        ELSE
           /\ spans' = StartSpan(s1, root, "fetch-temperature", "service-b", tid)
           /\ obCity' = r.city
           /\ weatherCalls' = Append(weatherCalls, r.city)
           /\ obPc' = "weather"
           /\ UNCHANGED obOut
  /\ UNCHANGED <<gwVars, wire, obOrigin, obReq, geoCalls, geoSent, weatherReplies>>

\* mutant: the error branch of handleTemperature without its return, so the
\* handler goes on to encode a result after the 500
WeatherReturns_NoReturn(reply) ==
  /\ obPc = "weather"
  /\ LET ft   == SpanNamed(spans, "fetch-temperature")
         root == SpanNamed(spans, "handleTemperature")
         r    == fetchTemperature(reply)
         s1   == EndSpan(Outcome(spans, ft, r), ft)
     IN
     /\ weatherReplies' = Append(weatherReplies, reply)
     /\ IF r.err # "" THEN
           /\ spans' = EndSpan(SetStatus(RecordError(s1, root), root, "Failed to fetch temperature"), root)
           /\ obOut' = Append(Append(obOut, WeatherErrorResponse), JsonOK(Convert(obCity, r.tempC)))
        ELSE
           /\ spans' = EndSpan(s1, root)
           /\ obOut' = Append(obOut, JsonOK(Convert(obCity, r.tempC)))
  /\ obPc' = "done"
  /\ UNCHANGED <<gwVars, wire, obOrigin, obReq, obCity, geoCalls, geoSent, geoReplies, weatherCalls>>

\* fetchTemperature's client.Do returns; handleTemperature answers
\* (lines 176-210, 249-276)
WeatherReturns(reply) ==
  /\ obPc = "weather"
  /\ LET ft   == SpanNamed(spans, "fetch-temperature")
         root == SpanNamed(spans, "handleTemperature")
         r    == fetchTemperature(reply)
         s1   == EndSpan(Outcome(spans, ft, r), ft)
     IN
     /\ weatherReplies' = Append(weatherReplies, reply)
     /\ IF r.err # "" THEN
           /\ spans' = EndSpan(SetStatus(RecordError(s1, root), root, "Failed to fetch temperature"), root)
           /\ obOut' = Append(obOut, WeatherErrorResponse)
        ELSE
           /\ spans' = EndSpan(s1, root)
           /\ obOut' = Append(obOut, JsonOK(Convert(obCity, r.tempC)))
  /\ obPc' = "done"
  /\ UNCHANGED <<gwVars, wire, obOrigin, obReq, obCity, geoCalls, geoSent, geoReplies, weatherCalls>>

\* the servers accept the next request: everything above is request-scoped
NextRequest ==
  /\ gwPc \in {"idle", "done"} /\ obPc \in {"idle", "done"} /\ wire = <<>>
  /\ ~(gwPc = "idle" /\ obPc = "idle")
  /\ gwPc' = "idle" /\ gwReq' = NoReq /\ gwValid' = "none" /\ gwCall' = "none"
  /\ gwOut' = <<>> /\ wire' = <<>>
  /\ obPc' = "idle" /\ obOrigin' = "none" /\ obReq' = NoReq /\ obCity' = "" /\ obOut' = <<>>
  /\ spans' = <<>>
  /\ geoCalls' = <<>> /\ geoSent' = <<>> /\ geoReplies' = <<>>
  /\ weatherCalls' = <<>> /\ weatherReplies' = <<>>
  /\ orchCalls' = 0

Next ==
  \/ \E body \in Bodies, tid \in TraceIds : HandleCEP_Receive(body, tid)
  \/ \E tid \in TraceIds : HandleTemperature_FromGateway(tid)
  \/ \E body \in Bodies, tid \in TraceIds : HandleTemperature_Direct(body, tid)
  \/ \E reply \in GeoReplies, tid \in TraceIds : GeocodingReturns(reply, tid)
  \/ \E reply \in WeatherReplies : WeatherReturns(reply)
  \/ \E readOk \in BOOLEAN : HandleCEP_Response(readOk)
  \/ HandleCEP_CallFails
  \/ NextRequest

Spec == Init /\ [][Next]_vars

TypeOK ==
  /\ gwPc \in {"idle", "calling", "done"}
  /\ obPc \in {"idle", "geocoding", "weather", "done"}
  /\ gwValid \in {"none", "valid", "invalid"}
  /\ gwCall \in {"none", "pending", "failed", "unreadable", "relayed"}
  /\ Len(wire) <= 1
  /\ Len(spans) <= 6

(* ======================= properties =================================== *)
GatewayAnswered == Len(gwOut) > 0
OrchAnswered == Len(obOut) > 0
GeoReplied == Len(geoReplies) > 0
WeatherReplied == Len(weatherReplies) > 0

\* C1: isValidCEP returns valid if and only if its argument is exactly eight
\* characters long and every character is a decimal digit; a string with a
\* sign character is rejected.
C1_ValidIffEightDigits ==
  gwValid # "none" => (gwValid = "valid" <=> EightDigits(gwReq.CEP))

\* C2: fetchCityFromCEP is only ever invoked with a postal code of exactly
\* eight ASCII digits, whether the request came through POST /cep or was
\* posted to /temperature.
C2_GeocodingOnlyEightDigits ==
  \A i \in 1..Len(geoCalls) : EightDigits(geoCalls[i])

\* C3: when isValidCEP rejects the decoded postal code, handleCEP answers
\* once, with status 422 and a body containing "invalid zipcode", and at no
\* point of that request is a call to service B issued.
C3_InvalidShortCircuits ==
  gwValid = "invalid" =>
     /\ Len(gwOut) = 1
     /\ gwOut[1].status = StatusUnprocessableEntity
     /\ BodyContains(gwOut[1].body, "invalid zipcode")
     /\ orchCalls = 0 /\ wire = <<>> /\ obPc = "idle" /\ ~OrchAnswered
     /\ SpanNamed(spans, "call-service-b") = NoSpan

C3_Witness ==
  /\ gwValid = "invalid" /\ gwPc = "done"
  /\ gwReq.CEP = <<"1","2","3">>

\* C4: when the geocoding provider answers a well-formed postal code with
\* status 404, handleTemperature responds 404, and so does the gateway
\* end to end.
C4_ProviderNotFoundIs404 ==
  (GeoReplied /\ geoReplies[1].transportOk /\ geoReplies[1].status = StatusNotFound
     /\ EightDigits(obReq.CEP) /\ OrchAnswered) =>
     /\ obOut[1].status = StatusNotFound
     /\ (gwCall = "relayed" => gwOut[1].status = StatusNotFound)

EmptyCityReply(reply) ==
  /\ reply.transportOk /\ reply.status = StatusOK
  /\ reply.readOk /\ reply.decodeOk /\ reply.localidade = ""

\* C5 (as claimed): when the geocoding provider answers successfully with an
\* empty city, handleTemperature responds 422 and does not invoke
\* fetchTemperature.
C5_EmptyCityIs422 ==
  (GeoReplied /\ EmptyCityReply(geoReplies[1])) =>
     /\ Len(obOut) = 1
     /\ obOut[1].status = StatusUnprocessableEntity
     /\ weatherCalls = <<>>

\* C5 (amended): when the geocoding provider answers successfully with an
\* empty city, handleTemperature responds 404 with body "can not find
\* zipcode" (not 422, not 500) and does not invoke fetchTemperature.
C5_EmptyCityIs404 ==
  (GeoReplied /\ EmptyCityReply(geoReplies[1])) =>
     /\ Len(obOut) = 1
     /\ obOut[1].status = StatusNotFound
     /\ BodyContains(obOut[1].body, "can not find zipcode")
     /\ weatherCalls = <<>> /\ weatherReplies = <<>>
     /\ SpanNamed(spans, "fetch-temperature") = NoSpan
     /\ obPc = "done"

C5_Witness ==
  /\ GeoReplied /\ EmptyCityReply(geoReplies[1])
  /\ obPc = "done" /\ obOrigin = "gateway"

WeatherFailure(reply) ==
  \/ ~reply.transportOk
  \/ reply.status # StatusOK
  \/ ~reply.decodeOk
  \/ reply.temp_c = 0

\* C6: once geocoding has succeeded, every failure of the weather call (a
\* non-success status, a reading of exactly zero, a transport or decode
\* failure) makes handleTemperature respond 500, never 4xx or 200, and the
\* gateway's end-to-end response is then 500 as well.
C6_WeatherFailureIs500 ==
  (WeatherReplied /\ WeatherFailure(weatherReplies[1])) =>
     /\ Len(obOut) = 1
     /\ obOut[1].status = StatusInternalServerError
     /\ ((obOrigin = "gateway" /\ gwPc = "done") =>
            (Len(gwOut) = 1 /\ gwOut[1].status = StatusInternalServerError))

C6_Witness ==
  /\ WeatherReplied
  /\ weatherReplies[1].transportOk /\ weatherReplies[1].status = StatusOK
  /\ weatherReplies[1].decodeOk /\ weatherReplies[1].temp_c = 0
  /\ gwCall = "relayed"

\* C7: when validation passed and the call to service B completed with a
\* readable response, handleCEP's response carries exactly service B's
\* status code and exactly service B's body.
C7_RelayVerbatim ==
  gwCall = "relayed" =>
     /\ gwValid = "valid"
     /\ Len(gwOut) = 1 /\ Len(obOut) = 1
     /\ gwOut[1].status = obOut[1].status
     /\ gwOut[1].body = obOut[1].body

C7_Witness ==
  /\ gwCall = "relayed"
  /\ obOut[1].status = StatusUnprocessableEntity
  /\ BodyContains(gwOut[1].body, "invalid zipcode")

\* C8: for a successful end-to-end request every span service B created
\* carries the trace identifier of the gateway's spans for that request.
C8_OneTrace ==
  (gwCall = "relayed" /\ gwOut[1].status = StatusOK) =>
     \A i, j \in 1..Len(spans) :
        (spans[i].svc = "service-a" /\ spans[j].svc = "service-b") =>
           spans[j].trace = spans[i].trace

\* C9: the call-service-b span has the handleCEP span as its direct parent.
C9_CallSpanChildOfRoot ==
  \A i \in 1..Len(spans) :
     spans[i].name = "call-service-b" =>
        /\ spans[i].parent # NoSpan
        /\ spans[spans[i].parent].name = "handleCEP"

GatewayBodyUndecodable == gwPc = "done" /\ gwValid = "none"

OrchSucceeded == OrchAnswered /\ obOut[1].status = StatusOK

ScenarioSaoPaulo ==
  /\ OrchSucceeded
  /\ obReq.CEP = <<"0","1","0","0","1","0","0","0">>
  /\ obCity = "Sao Paulo"
  /\ weatherReplies[1].temp_c = 225

C12_ReadmeKelvin ==
  ScenarioSaoPaulo =>
     LET r == obOut[1].body.result
     IN  /\ r.city = "Sao Paulo"
         /\ r.temp_C = 225
         /\ r.temp_F = 7250
         /\ 10 * r.temp_K = 29565

\* every dependency call returns: the geocoding call, the weather call and
\* the call to service B each come back with a response or a failure
FairSpec ==
  /\ Spec
  /\ WF_vars(\E reply \in GeoReplies, tid \in TraceIds : GeocodingReturns(reply, tid))
  /\ WF_vars(\E reply \in WeatherReplies : WeatherReturns(reply))
  /\ WF_vars(HandleCEP_CallFails \/ \E readOk \in BOOLEAN : HandleCEP_Response(readOk))

\* a handler that has returned has written one response; one that has not
\* has written none
OneOutcome ==
  /\ Len(gwOut) <= 1 /\ Len(obOut) <= 1
  /\ (gwPc = "done" <=> Len(gwOut) = 1)
  /\ (obPc = "done" <=> Len(obOut) = 1)

\* after a handler's response nothing of its request moves on: the response
\* stays as written and no further call is made
StopsAfterResponse ==
  /\ (gwPc = "done" /\ gwPc' = "done") => (gwOut' = gwOut /\ orchCalls' = orchCalls)
  /\ (obPc = "done" /\ obPc' = "done") =>
        (obOut' = obOut /\ geoCalls' = geoCalls /\ geoSent' = geoSent
           /\ weatherCalls' = weatherCalls)

\* C13: every request handled by handleTemperature or handleCEP reaches
\* exactly one terminal outcome: provided each dependency call returns, the
\* handler eventually writes exactly one response and stops; no path writes
\* a second response or continues the pipeline after a failure response.
C13_OneTerminalOutcome ==
  /\ []OneOutcome
  /\ [][StopsAfterResponse]_vars
  /\ (gwPc = "calling") ~> (gwPc = "done")
  /\ (obPc \in {"geocoding", "weather"}) ~> (obPc = "done")

C13_Witness ==
  /\ gwPc = "done" /\ obPc = "done" /\ obOrigin = "gateway"
  /\ Len(gwOut) = 1 /\ Len(obOut) = 1
  /\ WeatherReplied /\ WeatherFailure(weatherReplies[1])

\* C15: within one request no dependency is called more than once and the
\* calls are ordered: service B is called at most once and only after
\* validation passed; the geocoding provider at most once and only after
\* the body decoded; the weather provider at most once and only after
\* geocoding returned a non-empty city; no failed call is followed by
\* another call to the same dependency.
C15_OneCallEachInOrder ==
  /\ orchCalls <= 1
  /\ Len(wire) <= orchCalls
  /\ (orchCalls = 1 => (gwValid = "valid" /\ isValidCEP(gwReq.CEP)))
  /\ (obOrigin = "gateway" => orchCalls = 1)
  /\ Len(geoCalls) <= 1 /\ Len(geoSent) <= Len(geoCalls)
  /\ Len(geoReplies) <= Len(geoSent)
  /\ (Len(geoCalls) = 1 =>
        /\ obPc # "idle"
        /\ geoCalls[1] = obReq.CEP
        /\ (obOrigin = "gateway" => obReq.CEP = gwReq.CEP)
        /\ ~(OrchAnswered /\ obOut[1].status = StatusBadRequest))
  /\ Len(weatherCalls) <= 1
  /\ Len(weatherReplies) <= Len(weatherCalls)
  /\ (Len(weatherCalls) = 1 =>
        /\ Len(geoReplies) = 1
        /\ geoReplies[1].transportOk /\ geoReplies[1].readOk /\ geoReplies[1].decodeOk
        /\ geoReplies[1].localidade # ""
        /\ weatherCalls[1] = geoReplies[1].localidade)

C15_Witness ==
  /\ orchCalls = 1 /\ Len(geoCalls) = 1 /\ Len(weatherCalls) = 1
  /\ gwCall = "failed" /\ obPc = "done"
  /\ WeatherReplied /\ ~weatherReplies[1].transportOk

\* the operation that opened span i is still running
OperationRunning(i) ==
  CASE spans[i].name = "handleCEP"           -> gwPc = "calling"
    [] spans[i].name = "validate-cep"        -> FALSE
    [] spans[i].name = "call-service-b"      -> gwPc = "calling"
    [] spans[i].name = "handleTemperature"   -> obPc \in {"geocoding", "weather"}
    [] spans[i].name = "fetch-city-from-cep" -> obPc = "geocoding"
    [] spans[i].name = "fetch-temperature"   -> obPc = "weather"
    [] OTHER -> FALSE

\* C16: every span opened while handling a request is closed exactly once
\* before the operation that opened it returns, on every exit path; when a
\* handler has returned, no span it opened is still open.
C16_SpansClosedOnce ==
  \A i \in 1..Len(spans) :
     /\ spans[i].ended <= 1
     /\ (~OperationRunning(i) => spans[i].ended = 1)
     /\ (gwPc = "done" /\ spans[i].svc = "service-a" => spans[i].ended = 1)
     /\ (obPc = "done" /\ spans[i].svc = "service-b" => spans[i].ended = 1)

C16_Witness ==
  /\ gwPc = "done" /\ gwCall = "failed" /\ obPc = "done"
  /\ Len(spans) = 6
  /\ \A i \in 1..Len(spans) : spans[i].ended = 1

\* C17: span lifetimes within a service are strictly nested: the parent of
\* every span is still open when the child is opened and is closed no
\* earlier than the child; no span is started as a child of an ended span.
C17_SpansNested ==
  \A i \in 1..Len(spans) :
     spans[i].parent # NoSpan =>
        /\ spans[i].parentOpen
        /\ (spans[spans[i].parent].ended > 0 => spans[i].ended > 0)

GeoBadRequestReply(reply) == reply.transportOk /\ reply.status = StatusBadRequest

GeoUnavailableReply(reply) ==
  \/ ~reply.transportOk
  \/ /\ reply.status \notin {StatusBadRequest, StatusNotFound}
     /\ (~reply.readOk \/ ~reply.decodeOk)

\* C18: when the geocoding provider answers with status 400,
\* handleTemperature responds 422 with body "invalid zipcode"; when the
\* geocoding call fails in transport or its response cannot be read or
\* decoded, it responds 500; in both cases fetchTemperature is not invoked.
C18_GeoErrorStatuses ==
  GeoReplied =>
     /\ (GeoBadRequestReply(geoReplies[1]) =>
           /\ Len(obOut) = 1
           /\ obOut[1].status = StatusUnprocessableEntity
           /\ BodyContains(obOut[1].body, "invalid zipcode")
           /\ weatherCalls = <<>> /\ SpanNamed(spans, "fetch-temperature") = NoSpan)
     /\ (GeoUnavailableReply(geoReplies[1]) =>
           /\ Len(obOut) = 1
           /\ obOut[1].status = StatusInternalServerError
           /\ weatherCalls = <<>> /\ SpanNamed(spans, "fetch-temperature") = NoSpan)

C18_Witness ==
  /\ GeoReplied /\ GeoBadRequestReply(geoReplies[1])
  /\ obPc = "done" /\ EightDigits(obReq.CEP)

\* C19: when validation has passed but the gateway cannot complete the call
\* to service B or cannot read its response, handleCEP responds 500 with its
\* own message, relays nothing of service B's response, and records the
\* error on the call-service-b span.
C19_GatewayCallFailure ==
  gwCall \in {"failed", "unreadable"} =>
     LET call == SpanNamed(spans, "call-service-b") IN
     /\ gwValid = "valid"
     /\ Len(gwOut) = 1
     /\ gwOut[1] = HttpError(IF gwCall = "failed" THEN "failed to call service b"
                                                  ELSE "internal server error",
                             StatusInternalServerError)
     /\ (OrchAnswered => gwOut[1].body # obOut[1].body)
     /\ call # NoSpan
     /\ spans[call].recorded
     /\ spans[call].status = (IF gwCall = "failed" THEN "Failed to call service"
                                                   ELSE "Failed to read response")

C19_Witness ==
  /\ gwCall = "unreadable" /\ OrchSucceeded
  /\ gwOut[1].status = StatusInternalServerError

\* C20: every status-200 result of handleTemperature carries a non-empty
\* city equal to the one the geocoding provider returned and a temp_C that
\* is not zero and equals the weather provider's reading; it is emitted only
\* after both the geocoding call and the weather call succeeded.
C20_SuccessCarriesBoth ==
  OrchSucceeded =>
     LET r == obOut[1].body.result IN
     /\ Len(geoReplies) = 1 /\ Len(weatherReplies) = 1
     /\ geoReplies[1].transportOk /\ geoReplies[1].readOk /\ geoReplies[1].decodeOk
     /\ geoReplies[1].status \notin {StatusBadRequest, StatusNotFound}
     /\ ~WeatherFailure(weatherReplies[1])
     /\ r.city # "" /\ r.city = geoReplies[1].localidade
     /\ r.temp_C # 0 /\ r.temp_C = weatherReplies[1].temp_c

C20_Witness ==
  /\ OrchSucceeded /\ obOrigin = "client"
  /\ obOut[1].body.result.city = "Rio"
  /\ obOut[1].body.result.temp_C = -1

====
